---- MODULE Spec2Model ----
(***************************************************************************)
(* Protonic (src/src/main.rs): the localconfig.vdf launch-options editor   *)
(* (has_protonhax_configured, configure_launch_options) and the launch     *)
(* handler with its F1 hotkey worker.                                      *)
(*                                                                         *)
(* The file is a sequence of atoms.  An atom is a run of bytes that the    *)
(* editor's searches treat as a unit: the double quote "dq", the braces,   *)
(* the words LaunchOptions, protonhax, init, %COMMAND%, an app-id's        *)
(* digits, single other bytes ("x", "nl", "tab", " "), "filler", a run of  *)
(* 240 bytes of other keys or option text holding no quote and no brace,   *)
(* and "e-acute", the two bytes that encode the one character U+00E9.      *)
(* Positions are BYTE offsets, as in the Rust code; Width gives each       *)
(* atom's length in bytes.                                                 *)
(***************************************************************************)
EXTENDS Integers, Sequences, FiniteSets, TLC

VARIABLES
  content,         \* the text of localconfig.vdf
  fs,              \* how the file system answers (FsModes)
  last,            \* the last call of the editor and what it returned
  calls,           \* number of direct calls of configure_launch_options
  auto_configure,  \* AppConfig.auto_configure
  game_configs,    \* AppConfig.game_configs: app-id -> GameConfig
  last_app_id,     \* AppConfig.last_app_id
  ui_app_id,       \* the window's app_id property
  launch_options_status,  \* the window's launch_options_status property
  edits,           \* number of preference events handled so far
  workers,         \* the hotkey threads, in the order of their launches
  effects,         \* file writes and process spawns, in the order they happen
  f1               \* whether the F1 key is down

editorVars == <<content, fs, last, calls>>
prefVars == <<auto_configure, game_configs, last_app_id>>
uiVars == <<ui_app_id, launch_options_status>>
launchVars == <<workers, effects, f1>>

vars ==
  <<content, fs, last, calls, auto_configure, game_configs, last_app_id,
    ui_app_id, launch_options_status, edits, workers, effects, f1>>

(***************************************************************************)
(* Bounds of the model.                                                    *)
(***************************************************************************)
MaxValLen == 2
MaxPad == 3
MaxInstalls == 2
MaxLaunches == 2
MaxEdits == 2
MaxSnapshotLaunches == 1

(***************************************************************************)
(* Bytes and strings.                                                      *)
(***************************************************************************)
Width(a) ==
  CASE a = "LaunchOptions" -> 13
    [] a = "protonhax" -> 9
    [] a = "%COMMAND%" -> 9
    [] a = "init" -> 4
    [] a = "440" -> 3
    [] a = "620" -> 3
    [] a = "filler" -> 240
    [] a = "e-acute" -> 2
    [] OTHER -> 1

RECURSIVE ByteLen(_)
ByteLen(s) == IF s = <<>> THEN 0 ELSE Width(Head(s)) + ByteLen(Tail(s))

Min2(a, b) == IF a <= b THEN a ELSE b

\* Option::None of str::find
NotFound == -1

\* str::find, scanning from the front; off is the byte offset of s's head
RECURSIVE FindFrom(_, _, _)
FindFrom(s, pat, off) ==
  IF Len(s) < Len(pat) THEN NotFound
  ELSE IF SubSeq(s, 1, Len(pat)) = pat THEN off
  ELSE FindFrom(Tail(s), pat, off + Width(Head(s)))

\* str::find: byte offset of the first occurrence of pat in s
Find(s, pat) == FindFrom(s, pat, 0)

\* &s[a..]: s without its first a bytes
RECURSIVE SliceFrom(_, _)
SliceFrom(s, a) ==
  IF a <= 0 \/ s = <<>> THEN s ELSE SliceFrom(Tail(s), a - Width(Head(s)))

\* &s[..b]: the atoms lying wholly in the first b bytes of s.  An atom cut
\* by b is left out: a fragment of an atom matches none of the patterns.
RECURSIVE SliceTo(_, _)
SliceTo(s, b) ==
  IF s = <<>> \/ Width(Head(s)) > b THEN <<>>
  ELSE <<Head(s)>> \o SliceTo(Tail(s), b - Width(Head(s)))

\* &s[a..b]
Slice(s, a, b) == SliceTo(SliceFrom(s, a), b - a)

\* the atoms that are one character of more than one byte
MultiByte == {"e-acute"}

\* str::is_char_boundary(b), for b <= s.len(): b does not fall inside a
\* character of more than one byte
RECURSIVE IsCharBoundary(_, _)
IsCharBoundary(s, b) ==
  IF b <= 0 \/ s = <<>> THEN TRUE
  ELSE IF Width(Head(s)) > b THEN Head(s) \notin MultiByte
  ELSE IsCharBoundary(Tail(s), b - Width(Head(s)))

\* the panic of &s[a..b] when b is not a char boundary
SlicePanic == "byte index is not a char boundary"

\* str::contains
Contains(s, pat) == Find(s, pat) # NotFound

\* format!("\"{}\"", app_id)
AppPattern(app_id) == <<"dq", app_id, "dq">>

\* the literal "\"LaunchOptions\""
LaunchKey == <<"dq", "LaunchOptions", "dq">>

\* the 15 of after_launch[15..] and abs_launch_pos + 15
KeyLen == 15

\* the 500 of has_protonhax_configured's search area
CheckWindow == 500

\* the 500 of configure_launch_options' search area
EditWindow == 500

(***************************************************************************)
(* The file system as the editor sees it: "ok"; "nopath"                   *)
(* (get_localconfig_path gives None); "noread" (read_to_string fails);     *)
(* "nowrite" (fs::write fails to open the file, which stays as it was).    *)
(***************************************************************************)
FsModes == {"ok", "nopath", "noread", "nowrite"}

\* get_localconfig_path() and fs::read_to_string both succeed
Readable(fsm) == fsm \in {"ok", "nowrite"}

(***************************************************************************)
(* has_protonhax_configured                                                *)
(***************************************************************************)
\* search_area without the 500-byte bound
SearchArea_Unbounded(file, app_pos) == SliceFrom(file, app_pos)

\* &content[app_pos..std::cmp::min(app_pos + 500, content.len())]
SearchArea(file, app_pos) ==
  Slice(file, app_pos, Min2(app_pos + CheckWindow, ByteLen(file)))

\* has_protonhax_configured panics: the end of its search_area is not a
\* char boundary.  The other slices start and end at offsets str::find
\* returned.
has_protonhax_configured_panics(file, fsm, app_id) ==
  /\ Readable(fsm)
  /\ LET app_pos == Find(file, AppPattern(app_id)) IN
       /\ app_pos # NotFound
       /\ ~IsCharBoundary(file, Min2(app_pos + CheckWindow, ByteLen(file)))

\* the value has_protonhax_configured returns when it does not panic
has_protonhax_configured(file, fsm, app_id) ==
  IF ~Readable(fsm) THEN FALSE
  ELSE
  LET app_pos == Find(file, AppPattern(app_id)) IN
  IF app_pos = NotFound THEN FALSE
  ELSE
  LET search_area == SearchArea(file, app_pos)
      launch_pos == Find(search_area, LaunchKey)
  IN
  IF launch_pos = NotFound THEN FALSE
  ELSE
  LET after_launch == SliceFrom(search_area, launch_pos)
      first_quote == Find(SliceFrom(after_launch, KeyLen), <<"dq">>)
  IN
  IF first_quote = NotFound THEN FALSE
  ELSE
  LET value_start == KeyLen + first_quote + 1
      end_quote == Find(SliceFrom(after_launch, value_start), <<"dq">>)
  IN
  IF end_quote = NotFound THEN FALSE
  ELSE Contains(Slice(after_launch, value_start, value_start + end_quote),
                <<"protonhax">>)

(***************************************************************************)
(* configure_launch_options                                                *)
(***************************************************************************)
Ok(m, f, w) == [ok |-> TRUE, msg |-> m, content |-> f, wrote |-> w]
Err(m, f) == [ok |-> FALSE, msg |-> m, content |-> f, wrote |-> FALSE]

\* no Result: the call panicked, the file as it was
Panicked(f) == [ok |-> FALSE, msg |-> SlicePanic, content |-> f, wrote |-> FALSE]

\* new_options of Case A, with the existing options left out
NewOptions_DropsExisting(existing_options) ==
  <<"protonhax", " ", "init", " ", "%COMMAND%">>

\* new_options of Case A
NewOptions(existing_options) ==
  IF existing_options = <<>>
  THEN <<"protonhax", " ", "init", " ", "%COMMAND%">>
  ELSE <<"protonhax", " ", "init", " ">> \o existing_options \o <<" ", "%COMMAND%">>

\* new_line of Case B, with six tabs for seven
NewLine_SixTabs ==
  <<"nl", "tab", "tab", "tab", "tab", "tab", "tab",
    "dq", "LaunchOptions", "dq", "tab", "tab",
    "dq", "protonhax", " ", "init", " ", "%COMMAND%", "dq">>

\* new_line of Case B
NewLine ==
  <<"nl", "tab", "tab", "tab", "tab", "tab", "tab", "tab",
    "dq", "LaunchOptions", "dq", "tab", "tab",
    "dq", "protonhax", " ", "init", " ", "%COMMAND%", "dq">>

\* fs::write(&localconfig_path, new_content) and the final Ok
WriteBack(file, fsm, new_content) ==
  IF fsm = "nowrite"
  THEN Err("Failed to write localconfig.vdf", file)
  ELSE Ok("Launch options configured successfully", new_content, TRUE)

\* Case A's format!("{}{}{}", &content[..value_start], new_options,
\* &content[value_start + end_quote..]), with the closing quote dropped
ReplaceValue_DropsQuote(file, value_start, end_quote, new_options) ==
  Slice(file, 0, value_start) \o new_options
    \o SliceFrom(file, value_start + end_quote + 1)

\* Case A's format!("{}{}{}", &content[..value_start], new_options,
\* &content[value_start + end_quote..])
ReplaceValue(file, value_start, end_quote, new_options) ==
  Slice(file, 0, value_start) \o new_options
    \o SliceFrom(file, value_start + end_quote)

\* Case B's format!("{}{}{}", &content[..insert_pos], new_line,
\* &content[insert_pos..])
InsertAt(file, insert_pos, new_line) ==
  Slice(file, 0, insert_pos) \o new_line \o SliceFrom(file, insert_pos)

\* the ok_or_else of content.find(&app_pattern), with the failure swallowed
GameNotFound_Swallowed(file) ==
  Ok("Launch options configured successfully", file, FALSE)

\* the ok_or_else of content.find(&app_pattern)
GameNotFound(file) ==
  Err("Game not found in Steam config. Launch the game from Steam at least once first.", file)

\* configure_launch_options' search_area without the 500-byte bound
EditArea_Unbounded(file, section_start) == SliceFrom(file, section_start)

\* &content[section_start..std::cmp::min(section_start + 500, content.len())]
EditArea(file, section_start) ==
  Slice(file, section_start, Min2(section_start + EditWindow, ByteLen(file)))

\* the ok_or_else of the two finds of a quote, with the failure swallowed
InvalidFormat_Swallowed(file) ==
  Ok("Launch options configured successfully", file, FALSE)

\* the ok_or_else of after_key.find('"') and of value_area.find('"')
InvalidFormat(file) == Err("Invalid LaunchOptions format", file)

configure_launch_options(file, fsm, app_id) ==
  IF fsm = "nopath" THEN Err("Could not find Steam localconfig.vdf", file)
  ELSE IF fsm = "noread" THEN Err("Failed to read localconfig.vdf", file)
  ELSE IF has_protonhax_configured_panics(file, fsm, app_id) THEN Panicked(file)
  ELSE IF has_protonhax_configured(file, fsm, app_id)
  THEN Ok("Launch options already configured", file, FALSE)
  ELSE
  LET app_pattern == AppPattern(app_id)
      app_pos == Find(file, app_pattern)
  IN
  IF app_pos = NotFound THEN GameNotFound(file)
  ELSE
  LET brace_offset == Find(SliceFrom(file, app_pos + ByteLen(app_pattern)), <<"{">>) IN
  IF brace_offset = NotFound THEN Err("Invalid VDF structure", file)
  ELSE
  LET section_start == app_pos + ByteLen(app_pattern) + brace_offset + 1
      search_end == Min2(section_start + EditWindow, ByteLen(file))
      search_area == EditArea(file, section_start)
      launch_pos == Find(search_area, LaunchKey)
  IN
  IF ~IsCharBoundary(file, search_end) THEN Panicked(file)
  ELSE IF launch_pos # NotFound
  THEN
    LET abs_launch_pos == section_start + launch_pos
        first_quote == Find(SliceFrom(file, abs_launch_pos + KeyLen), <<"dq">>)
    IN
    IF first_quote = NotFound THEN InvalidFormat(file)
    ELSE
    LET value_start == abs_launch_pos + KeyLen + first_quote + 1
        end_quote == Find(SliceFrom(file, value_start), <<"dq">>)
    IN
    IF end_quote = NotFound THEN InvalidFormat(file)
    ELSE
    LET existing_options == Slice(file, value_start, value_start + end_quote)
        new_options == NewOptions(existing_options)
    IN WriteBack(file, fsm, ReplaceValue(file, value_start, end_quote, new_options))
  ELSE
    LET insert_pos == section_start
        new_line == NewLine
    IN WriteBack(file, fsm, InsertAt(file, insert_pos, new_line))

(***************************************************************************)
(* The files the editor is run on.                                         *)
(***************************************************************************)
AppIds == {"440", "620"}

ValAtoms == {"x", "protonhax", "%COMMAND%", "filler"}

SeqsUpTo(A, n) == UNION {[1..k -> A] : k \in 0..n}

Values == SeqsUpTo(ValAtoms, MaxValLen)

Pad(n) == [i \in 1..n |-> "filler"]

KeyLine(valpart) ==
  <<"nl", "tab", "dq", "LaunchOptions", "dq", "tab", "tab">> \o valpart

\* what follows the padding: no key; a key with no value; a value with no
\* closing quote; a key with a quoted value
KVs ==
  {<<>>, KeyLine(<<>>), KeyLine(<<"dq", "x">>)}
    \cup {KeyLine(<<"dq">> \o v \o <<"dq">>) : v \in Values}

SmallKVs == {<<>>, KeyLine(<<"dq", "x", "dq">>)}

Block(id, brace, n, kv) ==
  <<"dq", id, "dq", "nl">> \o brace \o Pad(n) \o kv \o <<"nl", "}">>

\* one app's block: padding (other keys) and then the key, in every variety
OneBlock == {Block(id, <<"{">>, n, kv) : id \in AppIds, n \in 0..MaxPad, kv \in KVs}

\* a block with or without its opening brace, followed by another app's block
TwoBlocks ==
  UNION {{Block(id1, brace, 0, kv1) \o <<"nl">> \o Block(id2, <<"{">>, 0, kv2) :
            brace \in {<<>>, <<"{">>}, kv1 \in SmallKVs,
            id2 \in AppIds \ {id1}, kv2 \in SmallKVs} : id1 \in AppIds}

\* a block with no opening brace and nothing after it
NoBrace == {Block(id, <<>>, 0, kv) : id \in AppIds, kv \in SmallKVs}

\* the white space between an app-id and its brace when the brace is on a
\* line of its own, indented
Indent == [i \in 1..13 |-> "tab"]

\* a block whose brace is indented, with 240 or 480 bytes of other keys
Indented ==
  {<<"dq", id, "dq", "nl">> \o Indent \o <<"{">> \o Pad(n) \o kv \o <<"nl", "}">> :
     id \in AppIds, n \in 1..2, kv \in SmallKVs}

Files == OneBlock \cup TwoBlocks \cup NoBrace \cup Indented

(***************************************************************************)
(* State machine of the editor.                                            *)
(***************************************************************************)
NoCall ==
  [op |-> "none", app |-> "", ok |-> FALSE, msg |-> "", before |-> <<>>,
   wrote |-> FALSE]

\* AppConfig::default(): auto_configure true, no game configs, no last game
DefaultPrefs ==
  /\ auto_configure = TRUE
  /\ game_configs = <<>>
  /\ last_app_id = ""

\* the status texts; [U+2713] stands for the check mark
StatusText(configured) ==
  IF configured
  THEN "[U+2713] Launch options configured"
  ELSE "Launch options will be configured on launch"

\* the process runs: no callback has panicked
Alive == last.msg # SlicePanic

\* a callback's call of has_protonhax_configured(app_id) panics
Crash(app_id) ==
  [op |-> "check", app |-> app_id, ok |-> FALSE, msg |-> SlicePanic,
   before |-> content, wrote |-> FALSE]

\* main's "Set initial UI state from config", which did not panic; a status
\* that is not set is the empty string
StartupUi ==
  /\ ui_app_id = last_app_id
  /\ ~(last_app_id # "" /\ auto_configure
        /\ has_protonhax_configured_panics(content, fs, last_app_id))
  /\ launch_options_status =
       IF last_app_id # "" /\ auto_configure
       THEN StatusText(has_protonhax_configured(content, fs, last_app_id))
       ELSE ""

NoLaunch ==
  /\ edits = 0
  /\ workers = <<>>
  /\ effects = <<>>
  /\ f1 = FALSE

Init ==
  /\ content \in Files
  /\ fs \in FsModes
  /\ last = NoCall
  /\ calls = 0
  /\ DefaultPrefs
  /\ StartupUi
  /\ NoLaunch

\* one call of configure_launch_options(app_id)
Install(app_id) ==
  /\ Alive
  /\ calls < MaxInstalls
  /\ LET r == configure_launch_options(content, fs, app_id) IN
       /\ content' = r.content
       /\ last' = [op |-> "install", app |-> app_id, ok |-> r.ok, msg |-> r.msg,
                   before |-> content, wrote |-> r.wrote]
  /\ calls' = calls + 1
  /\ UNCHANGED <<fs, prefVars, uiVars, edits, launchVars>>

\* one call of has_protonhax_configured(app_id)
Check(app_id) ==
  /\ Alive
  /\ last' = IF has_protonhax_configured_panics(content, fs, app_id)
             THEN Crash(app_id)
             ELSE [op |-> "check", app |-> app_id,
                   ok |-> has_protonhax_configured(content, fs, app_id),
                   msg |-> "", before |-> content, wrote |-> FALSE]
  /\ UNCHANGED <<content, fs, calls, prefVars, uiVars, edits, launchVars>>

Next ==
  \/ \E a \in AppIds : Install(a)
  \/ \E a \in AppIds : Check(a)

Spec == Init /\ [][Next]_vars

\* the number of single bytes put before the two-byte character
Shifts == 10..21

\* a block whose text holds the two-byte character after 480 bytes of other
\* keys and n single bytes, so that it starts at byte 487 + n of the file
Straddle(id, n, kv) ==
  <<"dq", id, "dq", "nl", "{">> \o Pad(2) \o [i \in 1..n |-> "x"]
    \o <<"e-acute">> \o kv \o <<"nl", "}">>

\* files with a character of two bytes: around the ends of the two windows,
\* and inside a launch-options value
Utf8Files ==
  {Straddle(id, n, kv) : id \in AppIds, n \in Shifts, kv \in SmallKVs}
    \cup {Block(id, <<"{">>, 0, KeyLine(<<"dq", "e-acute", "dq">>)) : id \in AppIds}

InitUtf8 ==
  /\ content \in Utf8Files
  /\ fs \in FsModes
  /\ last = NoCall
  /\ calls = 0
  /\ DefaultPrefs
  /\ StartupUi
  /\ NoLaunch

\* the editor called on text with characters of more than one byte
SpecUtf8 == InitUtf8 /\ [][Next]_vars

(***************************************************************************)
(* The launch handler (on_run_protonhax) and its hotkey thread.            *)
(***************************************************************************)
\* GameConfig
GameConfig(e1, e2) == [exe1_path |-> e1, exe2_path |-> e2]

\* the (exe1, exe2) read under the lock: the stored GameConfig, or two empty
\* strings when the app has none
StoredExes(app_id) ==
  IF app_id \in DOMAIN game_configs
  THEN game_configs[app_id]
  ELSE GameConfig("", "")

WriteEffect(n, app_id) == [kind |-> "write", launch |-> n, app |-> app_id, slot |-> 0, exe |-> ""]
SteamEffect(n, app_id) == [kind |-> "steam", launch |-> n, app |-> app_id, slot |-> 0, exe |-> ""]
RunEffect(n, app_id, k, e) == [kind |-> "run", launch |-> n, app |-> app_id, slot |-> k, exe |-> e]

\* the handler's effects with Steam spawned before the launch options are configured
Preflight_SteamFirst(r, n, app_id) ==
  <<SteamEffect(n, app_id)>> \o (IF r.wrote THEN <<WriteEffect(n, app_id)>> ELSE <<>>)

\* the handler's effects with the launch given up when the editor fails
Preflight_OnlyOk(r, n, app_id) ==
  IF r.ok
  THEN (IF r.wrote THEN <<WriteEffect(n, app_id)>> ELSE <<>>) \o <<SteamEffect(n, app_id)>>
  ELSE <<>>

\* the handler's effects up to thread::spawn: configure_launch_options' write,
\* if it made one, then Command::new("steam") ... spawn()
Preflight(r, n, app_id) ==
  (IF r.wrote THEN <<WriteEffect(n, app_id)>> ELSE <<>>) \o <<SteamEffect(n, app_id)>>

\* the handler's check of exe 1, with the early return left out
NoExecutable_Ignored(exe1) == FALSE

\* if exe1.is_empty()
NoExecutable(exe1) == exe1 = ""

\* println!("No executable selected!"); return
Refused(app_id) ==
  [op |-> "launch", app |-> app_id, ok |-> FALSE, msg |-> "No executable selected!",
   before |-> content, wrote |-> FALSE]

\* thread::spawn skipped when a thread of the same app still polls
StartThread_Deduplicated(ws, wk) ==
  IF \E w \in 1..Len(ws) : ws[w].app = wk.app /\ ws[w].pc = "poll"
  THEN ws
  ELSE Append(ws, wk)

\* thread::spawn(move || ...): one more hotkey thread, whatever the others do
StartThread(ws, wk) == Append(ws, wk)

\* ui.on_run_protonhax(app_id)
RunProtonhax(app_id) ==
  LET exe1 == StoredExes(app_id).exe1_path
      exe2 == StoredExes(app_id).exe2_path
      n == Len(workers) + 1
      r == IF auto_configure
           THEN configure_launch_options(content, fs, app_id)
           ELSE Ok("", content, FALSE)
  IN
  /\ Alive
  /\ IF NoExecutable(exe1)
     THEN /\ last' = Refused(app_id)
          /\ UNCHANGED <<content, fs, calls, prefVars, uiVars, edits, launchVars>>
     ELSE IF r.msg = SlicePanic
     THEN /\ last' = [op |-> "install", app |-> app_id, ok |-> r.ok, msg |-> r.msg,
                      before |-> content, wrote |-> r.wrote]
          /\ UNCHANGED <<content, fs, calls, prefVars, uiVars, edits, launchVars>>
     ELSE
        /\ Len(workers) < MaxLaunches
        /\ content' = r.content
        /\ last' = IF auto_configure
                   THEN [op |-> "install", app |-> app_id, ok |-> r.ok, msg |-> r.msg,
                         before |-> content, wrote |-> r.wrote]
                   ELSE last
        /\ effects' = effects \o Preflight(r, n, app_id)
        /\ workers' = StartThread(workers, [app |-> app_id, exe1 |-> exe1, exe2 |-> exe2,
                                            auto |-> auto_configure, pc |-> "poll"])
        /\ UNCHANGED <<fs, calls, prefVars, uiVars, edits, f1>>

\* the thread's spawn of exe 1 with exe 2 spawned as well, whether set or not
AfterExe1_AlwaysExe2(exe2) == "sleep500"

\* the thread's loop without its break: back to polling after exe 1
AfterExe1_NoBreak(exe2) == "poll"

\* the thread never returning from its 500 ms sleep
AfterExe1_NeverWakes(exe2) == IF exe2 # "" THEN "asleep" ELSE "done"

\* where the thread goes after spawning exe 1: if !exe2.is_empty()
AfterExe1(exe2) == IF exe2 # "" THEN "sleep500" ELSE "done"

\* the path the thread would spawn if it read the preferences when it fires
ThreadExe_Live(w, slot) ==
  IF slot = 1 THEN StoredExes(workers[w].app).exe1_path
  ELSE StoredExes(workers[w].app).exe2_path

\* the path the thread spawns: exe1 and exe2 are Strings moved into the
\* closure of thread::spawn
ThreadExe(w, slot) == IF slot = 1 THEN workers[w].exe1 ELSE workers[w].exe2

\* one turn of the thread's loop: get_keys(), and on F1 the spawn of exe 1;
\* otherwise the 100 ms sleep
Poll(w) ==
  /\ Alive
  /\ workers[w].pc = "poll"
  /\ IF f1
     THEN /\ effects' = Append(effects, RunEffect(w, workers[w].app, 1, ThreadExe(w, 1)))
          /\ workers' = [workers EXCEPT ![w].pc = AfterExe1(workers[w].exe2)]
     ELSE UNCHANGED <<workers, effects>>
  /\ UNCHANGED <<editorVars, prefVars, uiVars, edits, f1>>

\* after the 500 ms sleep: the spawn of exe 2, and the break
SpawnExe2(w) ==
  /\ Alive
  /\ workers[w].pc = "sleep500"
  /\ effects' = Append(effects, RunEffect(w, workers[w].app, 2, ThreadExe(w, 2)))
  /\ workers' = [workers EXCEPT ![w].pc = "done"]
  /\ UNCHANGED <<editorVars, prefVars, uiVars, edits, f1>>

\* the user presses or releases F1
PressF1 ==
  /\ ~f1
  /\ f1' = TRUE
  /\ UNCHANGED <<editorVars, prefVars, uiVars, edits, workers, effects>>

ReleaseF1 ==
  /\ f1
  /\ f1' = FALSE
  /\ UNCHANGED <<editorVars, prefVars, uiVars, edits, workers, effects>>

\* the files a launch runs on: the key absent, present, wrapped already, its
\* value not closed; the app absent; no brace after the app-id
LaunchFiles ==
  {Block("440", <<"{">>, 0, kv) : kv \in SmallKVs}
    \cup {Block("440", <<"{">>, 0, KeyLine(<<"dq", "protonhax", "dq">>)),
          Block("440", <<"{">>, 0, KeyLine(<<"dq", "x">>)),
          Block("620", <<"{">>, 0, <<>>),
          Block("440", <<>>, 0, <<>>)}

\* the preferences as confy::load returns them
StoredConfigs ==
  {[a \in D |-> GameConfig(e1, e2)] :
     D \in {{}, {"440"}, AppIds}, e1 \in {"", "/a.exe"}, e2 \in {"", "/b.exe"}}

InitLaunch ==
  /\ content \in LaunchFiles
  /\ fs \in FsModes
  /\ last = NoCall
  /\ calls = 0
  /\ auto_configure \in BOOLEAN
  /\ game_configs \in StoredConfigs
  /\ last_app_id = ""
  /\ StartupUi
  /\ NoLaunch

NextLaunch ==
  \/ \E a \in AppIds : RunProtonhax(a)
  \/ \E w \in 1..Len(workers) : Poll(w)
  \/ \E w \in 1..Len(workers) : SpawnExe2(w)
  \/ PressF1
  \/ ReleaseF1

SpecLaunch == InitLaunch /\ [][NextLaunch]_vars

\* launches on a file that needs no edit, with every stored preference
InitFair ==
  /\ content = Block("440", <<"{">>, 0, KeyLine(<<"dq", "protonhax", "dq">>))
  /\ fs = "ok"
  /\ last = NoCall
  /\ calls = 0
  /\ auto_configure \in BOOLEAN
  /\ game_configs \in StoredConfigs
  /\ last_app_id = ""
  /\ StartupUi
  /\ NoLaunch

\* the operating system schedules every hotkey thread: a thread that can
\* make a step of its loop, or wake from its sleep, does so in the end
FairThreads ==
  \A w \in 1..MaxLaunches :
    /\ WF_vars(w <= Len(workers) /\ Poll(w))
    /\ WF_vars(w <= Len(workers) /\ SpawnExe2(w))

SpecFair == InitFair /\ [][NextLaunch]_vars /\ FairThreads

(***************************************************************************)
(* The window's callbacks on the preferences, and all the events together. *)
(***************************************************************************)
\* ui.on_game_selected(name), for a name of the catalog with app-id id
GameSelected(id) ==
  /\ Alive
  /\ edits < MaxEdits
  /\ ui_app_id' = id
  /\ IF auto_configure /\ has_protonhax_configured_panics(content, fs, id)
     THEN /\ last' = Crash(id)
          /\ UNCHANGED <<launch_options_status, last_app_id>>
     ELSE /\ launch_options_status' =
               IF auto_configure
               THEN StatusText(has_protonhax_configured(content, fs, id))
               ELSE launch_options_status
          /\ last_app_id' = id
          /\ last' = last
  /\ edits' = edits + 1
  /\ UNCHANGED <<content, fs, calls, auto_configure, game_configs, launchVars>>

\* ui.on_auto_configure_toggled(enabled)
AutoConfigureToggled(enabled) ==
  /\ Alive
  /\ edits < MaxEdits
  /\ auto_configure' = enabled
  /\ IF enabled /\ last_app_id # ""
        /\ has_protonhax_configured_panics(content, fs, last_app_id)
     THEN /\ last' = Crash(last_app_id)
          /\ UNCHANGED launch_options_status
     ELSE /\ launch_options_status' =
               IF enabled /\ last_app_id # ""
               THEN StatusText(has_protonhax_configured(content, fs, last_app_id))
               ELSE ""
          /\ last' = last
  /\ edits' = edits + 1
  /\ UNCHANGED <<content, fs, calls, game_configs, last_app_id, ui_app_id, launchVars>>

\* cfg.game_configs.entry(app_id).or_default(), with one path set
WithExe(app_id, slot, path) ==
  [a \in DOMAIN game_configs \cup {app_id} |->
     IF a # app_id THEN game_configs[a]
     ELSE IF slot = 1 THEN GameConfig(path, StoredExes(a).exe2_path)
     ELSE GameConfig(StoredExes(a).exe1_path, path)]

\* the files the dialog may return
PickedPaths == {"/a.exe", "/b.exe"}

\* ui.on_browse_exe1 (slot 1), ui.on_browse_exe2 (slot 2), the dialog
\* returning path
BrowseExe(slot, path) ==
  /\ Alive
  /\ edits < MaxEdits
  /\ edits' = edits + 1
  /\ game_configs' = IF ui_app_id = "" THEN game_configs
                     ELSE WithExe(ui_app_id, slot, path)
  /\ UNCHANGED <<editorVars, auto_configure, last_app_id, uiVars, launchVars>>

\* ui.on_clear_exe1 (slot 1), ui.on_clear_exe2 (slot 2)
ClearExe(slot) ==
  /\ Alive
  /\ edits < MaxEdits
  /\ edits' = edits + 1
  /\ game_configs' = IF ui_app_id # "" /\ ui_app_id \in DOMAIN game_configs
                     THEN WithExe(ui_app_id, slot, "")
                     ELSE game_configs
  /\ UNCHANGED <<editorVars, auto_configure, last_app_id, uiVars, launchVars>>

\* the files the window runs on: 440's block without the key, with a plain
\* value, with a wrapped value
UiFiles ==
  {Block("440", <<"{">>, 0, kv) : kv \in SmallKVs}
    \cup {Block("440", <<"{">>, 0, KeyLine(<<"dq", "protonhax", "dq">>))}

InitUi ==
  /\ content \in UiFiles
  /\ fs \in {"ok", "nopath"}
  /\ last = NoCall
  /\ calls = 0
  /\ auto_configure \in BOOLEAN
  /\ game_configs \in {<<>>, [a \in {"440"} |-> GameConfig("/a.exe", "/b.exe")]}
  /\ last_app_id \in {"", "440"}
  /\ StartupUi
  /\ NoLaunch

\* the callbacks that read and change the preferences
NextPrefs ==
  \/ \E id \in AppIds : GameSelected(id)
  \/ \E enabled \in BOOLEAN : AutoConfigureToggled(enabled)
  \/ \E slot \in {1, 2}, path \in PickedPaths : BrowseExe(slot, path)
  \/ \E slot \in {1, 2} : ClearExe(slot)

\* the callbacks of the window
NextUi ==
  \/ NextPrefs
  \/ \E a \in AppIds : RunProtonhax(a)

SpecUi == InitUi /\ [][NextUi]_vars

\* 440 selected at startup with both executables stored, its file wrapped
InitSnapshot ==
  /\ content = Block("440", <<"{">>, 0, KeyLine(<<"dq", "protonhax", "dq">>))
  /\ fs = "ok"
  /\ last = NoCall
  /\ calls = 0
  /\ auto_configure \in BOOLEAN
  /\ game_configs = [a \in {"440"} |-> GameConfig("/a.exe", "/b.exe")]
  /\ last_app_id = "440"
  /\ StartupUi
  /\ NoLaunch

\* the callbacks of the window, the hotkey threads and the keyboard, with
\* at most MaxSnapshotLaunches launches
NextSnapshot ==
  \/ NextPrefs
  \/ \E a \in AppIds : Len(workers) < MaxSnapshotLaunches /\ RunProtonhax(a)
  \/ \E w \in 1..Len(workers) : Poll(w)
  \/ \E w \in 1..Len(workers) : SpawnExe2(w)
  \/ PressF1
  \/ ReleaseF1

SpecSnapshot == InitSnapshot /\ [][NextSnapshot]_vars

(***************************************************************************)
(* What the claims speak of, stated on the file's text and not through the *)
(* editor's own computation.  Indices here are atom indices (1-based).     *)
(***************************************************************************)
SetMin(S) == CHOOSE x \in S : \A y \in S : x <= y

\* index of the first occurrence of pat in s at or after index from; 0 if none
IndexOf(s, pat, from) ==
  LET hits == {i \in from..(Len(s) - Len(pat) + 1) : SubSeq(s, i, i + Len(pat) - 1) = pat}
  IN IF hits = {} THEN 0 ELSE SetMin(hits)

\* number of leading atoms two texts share
CommonPrefix(a, b) ==
  LET m == Min2(Len(a), Len(b))
      d == {i \in 1..m : a[i] # b[i]}
  IN IF d = {} THEN m ELSE SetMin(d) - 1

\* new ends with old's atoms from index j on, leaving at least `keep` atoms before them
EndsWithFrom(old, new, j, keep) ==
  /\ Len(new) - (Len(old) - j + 1) >= keep
  /\ SubSeq(new, Len(new) - (Len(old) - j), Len(new)) = SubSeq(old, j, Len(old))

\* old[i] is the opening quote of the value of a LaunchOptions key
OpensLaunchValue(old, i) ==
  /\ old[i] = "dq"
  /\ \E k \in 1..(i - 3) :
       /\ SubSeq(old, k, k + 2) = LaunchKey
       /\ \A m \in (k + 3)..(i - 1) : old[m] # "dq"

\* new is old with only the inside of one LaunchOptions value rewritten
FrameCaseA(old, new) ==
  \E i \in 1..CommonPrefix(old, new) :
    /\ OpensLaunchValue(old, i)
    /\ LET j == IndexOf(old, <<"dq">>, i + 1) IN
         j # 0 /\ EndsWithFrom(old, new, j, i)

\* new is old with text inserted right after an opening brace
FrameCaseB(old, new) ==
  \E i \in 1..CommonPrefix(old, new) :
    old[i] = "{" /\ EndsWithFrom(old, new, i + 1, i)

InstallDone == last.op = "install"

(***************************************************************************)
(* C1: whenever installWrapper (configure_launch_options) returns ok,      *)
(* isWrapperConfigured (has_protonhax_configured) is true on the resulting *)
(* file for the same app-id.                                               *)
(***************************************************************************)
C1_OkImpliesConfigured ==
  (InstallDone /\ last.ok) => has_protonhax_configured(content, fs, last.app)

(***************************************************************************)
(* C2: installWrapper is idempotent on the file: a call that follows a     *)
(* call for the same app-id leaves the file's bytes as the first call left *)
(* them.                                                                   *)
(***************************************************************************)
C2_Idempotent ==
  [][(InstallDone /\ last'.op = "install" /\ calls' = calls + 1
        /\ last'.app = last.app)
       => content' = content]_vars

(***************************************************************************)
(* C3: installWrapper changes nothing outside the edited span: the bytes   *)
(* before the start of the edited launch-options value (or before the      *)
(* insertion point) and the bytes from the value's closing quote (or from  *)
(* the insertion point) onward are those of the input file, in order; a    *)
(* call that does not write leaves the whole file as it was.               *)
(***************************************************************************)
C3_FrameOutsideSpan ==
  InstallDone =>
    IF last.wrote
    THEN FrameCaseA(last.before, content) \/ FrameCaseB(last.before, content)
    ELSE content = last.before

\* an existing non-empty value was rewritten in a file with text after it
C3_Witness ==
  /\ InstallDone /\ last.wrote
  /\ FrameCaseA(last.before, content)
  /\ ~FrameCaseB(last.before, content)
  /\ Len(content) = Len(last.before) + 6

White == {"nl", "tab", " "}

\* index of the opening brace of the block that immediately follows the first
\* occurrence of "<app_id>" (only white space in between); 0 if there is none
BlockOpen(file, app_id) ==
  LET t == IndexOf(file, AppPattern(app_id), 1)
      b == IF t = 0 THEN 0 ELSE IndexOf(file, <<"{">>, t + 3)
  IN IF b # 0 /\ \A m \in (t + 3)..(b - 1) : file[m] \in White THEN b ELSE 0

\* index of the closing brace of that block; past the end if it is not closed
BlockClose(file, app_id) ==
  LET e == IndexOf(file, <<"}">>, BlockOpen(file, app_id) + 1)
  IN IF e = 0 THEN Len(file) + 1 ELSE e

\* index of the first LaunchOptions key inside the app's block; 0 if none
TargetKey(file, app_id) ==
  LET b == BlockOpen(file, app_id)
      k == IF b = 0 THEN 0 ELSE IndexOf(file, LaunchKey, b + 1)
  IN IF k # 0 /\ k + 2 < BlockClose(file, app_id) THEN k ELSE 0

\* index of the quote opening that key's value; 0 if none
TargetValueOpen(file, app_id) ==
  LET k == TargetKey(file, app_id)
      o == IF k = 0 THEN 0 ELSE IndexOf(file, <<"dq">>, k + 3)
  IN IF o # 0 /\ \A m \in (k + 3)..(o - 1) : file[m] \in White THEN o ELSE 0

\* index of the quote closing that key's value; 0 if none
TargetValueClose(file, app_id) ==
  LET o == TargetValueOpen(file, app_id)
      c == IF o = 0 THEN 0 ELSE IndexOf(file, <<"dq">>, o + 1)
  IN IF c # 0 /\ c < BlockClose(file, app_id) THEN c ELSE 0

\* the app has a launch-options value in its block
HasTargetValue(file, app_id) == TargetValueClose(file, app_id) # 0

\* the app's launch-options value
TargetValue(file, app_id) ==
  SubSeq(file, TargetValueOpen(file, app_id) + 1, TargetValueClose(file, app_id) - 1)

\* the app's key lies wholly in the 500 bytes that follow its block's brace
KeyInEditWindow(file, app_id) ==
  /\ TargetKey(file, app_id) # 0
  /\ ByteLen(SubSeq(file, BlockOpen(file, app_id) + 1, TargetKey(file, app_id) + 2)) <= 500

\* `protonhax init ` ++ S ++ ` %COMMAND%`, or `protonhax init %COMMAND%`
Wrapped(S) ==
  IF S = <<>> THEN <<"protonhax", " ", "init", " ", "%COMMAND%">>
  ELSE <<"protonhax", " ", "init", " ">> \o S \o <<" ", "%COMMAND%">>

\* the last call was an install for an app whose value did not hold protonhax
C4_Case ==
  /\ InstallDone /\ last.ok
  /\ HasTargetValue(last.before, last.app)
  /\ ~Contains(TargetValue(last.before, last.app), <<"protonhax">>)

C4_Result ==
  /\ HasTargetValue(content, last.app)
  /\ TargetValue(content, last.app) = Wrapped(TargetValue(last.before, last.app))

(***************************************************************************)
(* C4 as stated: for every existing launch-options value S of the target   *)
(* app that does not contain protonhax, after installWrapper returns ok    *)
(* the app's value is `protonhax init ` S ` %COMMAND%` (S non-empty) or    *)
(* `protonhax init %COMMAND%` (S empty).                                   *)
(***************************************************************************)
C4_Original == C4_Case => C4_Result

(***************************************************************************)
(* C4 as amended: the same, for every existing value whose key lies wholly *)
(* within the 500 bytes that follow the opening brace of the app's block.  *)
(***************************************************************************)
C4_WrapsExisting ==
  (C4_Case /\ KeyInEditWindow(last.before, last.app)) => C4_Result

\* a non-empty value holding %COMMAND% was wrapped
C4_Witness ==
  /\ C4_Case /\ KeyInEditWindow(last.before, last.app)
  /\ last.wrote
  /\ TargetValue(last.before, last.app) = <<"x", "%COMMAND%">>
  /\ C4_Result

(***************************************************************************)
(* C5: for every readable file that does not contain the quoted token      *)
(* "<appId>", installWrapper returns the error `Game not found in Steam    *)
(* config. Launch the game from Steam at least once first.` and the file   *)
(* is left unchanged, no write being performed.                            *)
(***************************************************************************)
C5_AbsentAppNotFound ==
  (InstallDone /\ Readable(fs) /\ IndexOf(last.before, AppPattern(last.app), 1) = 0)
    => /\ ~last.ok
       /\ last.msg = "Game not found in Steam config. Launch the game from Steam at least once first."
       /\ ~last.wrote
       /\ content = last.before

\* install for 440 on a file that holds only 620's block, with a key
C5_Witness ==
  /\ InstallDone /\ Readable(fs) /\ last.app = "440"
  /\ IndexOf(last.before, AppPattern("440"), 1) = 0
  /\ IndexOf(last.before, AppPattern("620"), 1) # 0
  /\ IndexOf(last.before, LaunchKey, 1) # 0
  /\ ~last.ok

\* number of occurrences of pat in s
CountOcc(s, pat) ==
  Cardinality({i \in 1..(Len(s) - Len(pat) + 1) : SubSeq(s, i, i + Len(pat) - 1) = pat})

(***************************************************************************)
(* C6: whenever the target app's existing launch-options value contains    *)
(* protonhax, installWrapper returns ok with the already-configured        *)
(* message and leaves the file unchanged; and after any number of calls    *)
(* the prefix `protonhax init ` occurs at most once in the app's value.    *)
(***************************************************************************)
C6_AlreadyConfiguredNoOp ==
  /\ (InstallDone /\ Readable(fs) /\ HasTargetValue(last.before, last.app)
        /\ CountOcc(TargetValue(last.before, last.app), <<"protonhax">>) > 0)
       => /\ last.ok
          /\ last.msg = "Launch options already configured"
          /\ content = last.before
  /\ (InstallDone /\ HasTargetValue(content, last.app))
       => CountOcc(TargetValue(content, last.app), <<"protonhax", " ", "init", " ">>) <= 1

(***************************************************************************)
(* C7: after installWrapper has written the value and returned ok,         *)
(* %COMMAND% appears exactly once in the target app's launch-options       *)
(* value, whatever the existing value was, also when it held %COMMAND%.    *)
(***************************************************************************)
C7_CommandExactlyOnce ==
  (InstallDone /\ last.ok /\ last.wrote /\ HasTargetValue(content, last.app))
    => CountOcc(TargetValue(content, last.app), <<"%COMMAND%">>) = 1

(***************************************************************************)
(* C8: a call that writes changes the file only inside the braced block    *)
(* that immediately follows the first occurrence of "<appId>": nothing at  *)
(* or after that block's closing brace is modified, even when another      *)
(* app's LaunchOptions key falls within the 500-byte search window.        *)
(***************************************************************************)
C8_EditInsideTargetBlock ==
  (InstallDone /\ last.wrote /\ BlockOpen(last.before, last.app) # 0)
    => CommonPrefix(last.before, content) < BlockClose(last.before, last.app)

\* the text conditions of C9, with the value read from the file: the app-id
\* is present, the key lies in the 500 bytes from its first occurrence, and
\* the quoted value after the key holds protonhax.  lim bounds the position
\* of the value's closing quote, in bytes from the app-id.
C9_Text(file, app_id, lim) ==
  LET t == IndexOf(file, AppPattern(app_id), 1)
      k == IF t = 0 THEN 0 ELSE IndexOf(file, LaunchKey, t)
      o == IF k = 0 THEN 0 ELSE IndexOf(file, <<"dq">>, k + 3)
      c == IF o = 0 THEN 0 ELSE IndexOf(file, <<"dq">>, o + 1)
  IN /\ c # 0
     /\ ByteLen(SubSeq(file, t, k + 2)) <= 500
     /\ ByteLen(SubSeq(file, t, c)) <= lim
     /\ CountOcc(SubSeq(file, o + 1, c - 1), <<"protonhax">>) > 0

CheckDone == last.op = "check"

(***************************************************************************)
(* C9 as stated: isWrapperConfigured returns true if and only if the file  *)
(* can be read, contains "<appId>", the window of at most 500 bytes from   *)
(* its first occurrence contains "LaunchOptions", and the quoted value     *)
(* following the first such key contains protonhax.                        *)
(***************************************************************************)
C9_Original ==
  CheckDone =>
    (last.ok <=> (Readable(fs) /\ C9_Text(content, last.app, ByteLen(content))))

(***************************************************************************)
(* C9 as amended: the same, where the quoted value following the key lies, *)
(* closing quote included, within the 500-byte window.                     *)
(***************************************************************************)
C9_ConfiguredIffInWindow ==
  CheckDone => (last.ok <=> (Readable(fs) /\ C9_Text(content, last.app, 500)))

\* true is returned on a file where padding precedes the key
C9_Witness ==
  /\ CheckDone /\ last.ok
  /\ C9_Text(content, last.app, 500)
  /\ CountOcc(content, <<"filler">>) > 0

\* the positions in effects of launch n's effects of one kind and slot
EffectsOf(n, kind, slot) ==
  {i \in 1..Len(effects) :
     effects[i].launch = n /\ effects[i].kind = kind /\ effects[i].slot = slot}

\* every position of A comes before every position of B
AllBefore(A, B) == \A i \in A, j \in B : i < j

(***************************************************************************)
(* C10: for every launch with non-empty exe1 and autoConfigure true, the   *)
(* installWrapper file write (if any) precedes the spawn of                *)
(* `steam steam://run/<appId>`, which precedes the spawn of                *)
(* `protonhax run <appId> <exe1>`, which precedes the spawn of             *)
(* `protonhax run <appId> <exe2>`; each happens at most once, Steam's      *)
(* exactly once, with the launch's app-id and paths; and when exe2 is      *)
(* empty no second `protonhax run` spawn occurs.                           *)
(***************************************************************************)
C10_LaunchOrder ==
  \A n \in 1..Len(workers) :
    (workers[n].auto /\ workers[n].exe1 # "") =>
      LET W == EffectsOf(n, "write", 0)
          S == EffectsOf(n, "steam", 0)
          R1 == EffectsOf(n, "run", 1)
          R2 == EffectsOf(n, "run", 2)
      IN /\ Cardinality(W) <= 1 /\ Cardinality(S) = 1
         /\ Cardinality(R1) <= 1 /\ Cardinality(R2) <= 1
         /\ AllBefore(W, S) /\ AllBefore(S, R1) /\ AllBefore(R1, R2)
         /\ R2 # {} => R1 # {}
         /\ workers[n].exe2 = "" => R2 = {}
         /\ \A i \in W \cup S \cup R1 \cup R2 : effects[i].app = workers[n].app
         /\ \A i \in R1 : effects[i].exe = workers[n].exe1
         /\ \A i \in R2 : effects[i].exe = workers[n].exe2

\* a launch that wrote the file, spawned Steam, then exe1, then exe2
C10_Witness ==
  \E n \in 1..Len(workers) :
    /\ workers[n].auto /\ workers[n].pc = "done"
    /\ EffectsOf(n, "write", 0) # {}
    /\ EffectsOf(n, "run", 2) # {}

\* the effects that a step appends
NewEffects == {i \in (Len(effects) + 1)..Len(effects') : TRUE}

\* a step in which a launch for app_id got past the check of exe 1: the
\* editor was called for it, the file was written, Steam was spawned for it
\* or a hotkey thread was started for it
LaunchProceeds(app_id) ==
  \/ last' # last /\ last'.app = app_id /\ last'.op = "install"
  \/ content' # content /\ last'.app = app_id
  \/ \E i \in NewEffects : effects'[i].app = app_id /\ effects'[i].kind # "run"
  \/ Len(workers') > Len(workers) /\ workers'[Len(workers')].app = app_id

(***************************************************************************)
(* C11: if the stored exe1 path of the launched app-id is empty (or the    *)
(* app has no stored GameConfig), the launch returns without any effect:   *)
(* installWrapper is not invoked and the file is not modified, Steam is    *)
(* not spawned, no hotkey worker is started, and no `protonhax run` is     *)
(* ever spawned for that launch: every `protonhax run` belongs to a worker *)
(* whose exe1 is not empty.                                                *)
(***************************************************************************)
C11_EmptyExe1NoEffect ==
  [][/\ \A a \in AppIds : StoredExes(a).exe1_path = "" => ~LaunchProceeds(a)
     /\ (last' # last /\ last'.op = "launch") =>
          /\ last' = Refused(last'.app)
          /\ UNCHANGED <<content, fs, calls, prefVars, uiVars, edits, launchVars>>
     /\ \A i \in NewEffects :
          effects'[i].kind = "run" =>
            /\ effects'[i].launch \in 1..Len(workers)
            /\ workers[effects'[i].launch].exe1 # ""]_vars

\* 620 has no GameConfig and its launch was refused, on a file the editor
\* would have written, after a launch of 440 whose thread has run, F1 down
C11_Witness ==
  /\ last = Refused("620")
  /\ "620" \notin DOMAIN game_configs
  /\ auto_configure /\ configure_launch_options(content, fs, "620").wrote
  /\ Len(workers) = 1 /\ workers[1].pc = "done" /\ f1

\* a step that starts a hotkey thread
LaunchStep == Len(workers') = Len(workers) + 1

\* the messages configure_launch_options fails with
InstallErrors ==
  {"Could not find Steam localconfig.vdf", "Failed to read localconfig.vdf",
   "Game not found in Steam config. Launch the game from Steam at least once first.",
   "Invalid VDF structure", "Invalid LaunchOptions format",
   "Failed to write localconfig.vdf"}

(***************************************************************************)
(* C12: a failing installWrapper never blocks the launch: whenever exe1 is *)
(* non-empty and autoConfigure is true, for every outcome of installWrapper*)
(* (ok, config not located, NotFound, MalformedVDF, read or write failure) *)
(* the launch still spawns Steam exactly once and starts the hotkey worker.*)
(***************************************************************************)
C12_FailedInstallStillLaunches ==
  [][/\ (last' # last /\ last'.op = "install") => LaunchStep
     /\ (LaunchStep /\ auto_configure) =>
          /\ last'.op = "install"
          /\ last'.ok \/ last'.msg \in InstallErrors
          /\ workers'[Len(workers')] =
               [app |-> last'.app, exe1 |-> StoredExes(last'.app).exe1_path,
                exe2 |-> StoredExes(last'.app).exe2_path, auto |-> TRUE, pc |-> "poll"]
          /\ Cardinality({i \in 1..Len(effects') :
                            /\ effects'[i].kind = "steam"
                            /\ effects'[i].launch = Len(workers')}) = 1
          /\ Cardinality({i \in NewEffects :
                            effects'[i] = SteamEffect(Len(workers'), last'.app)}) = 1]_vars

\* a launch whose write of the file failed: Steam was spawned and the thread
\* has run both executables
C12_Witness ==
  /\ InstallDone /\ ~last.ok /\ last.msg = "Failed to write localconfig.vdf"
  /\ Len(workers) = 1 /\ workers[1].auto /\ workers[1].pc = "done"
  /\ effects[1] = SteamEffect(1, last.app)
  /\ Len(effects) = 3

(***************************************************************************)
(* C13: after any sequence of front-end events (startup, game-selected,    *)
(* auto-configure-toggled, launch), the status string shown is: empty when *)
(* auto-configure is off or no app is selected; otherwise the configured   *)
(* text when isWrapperConfigured(selected app) is true on the current      *)
(* file, and the will-be-configured text when it is false.                 *)
(***************************************************************************)
C13_StatusMatchesFile ==
  launch_options_status =
    IF ~auto_configure \/ ui_app_id = "" THEN ""
    ELSE StatusText(has_protonhax_configured(content, fs, ui_app_id))

(***************************************************************************)
(* C14: no error is fatal to the process: for every file content           *)
(* (including content in which a multi-byte UTF-8 character straddles the  *)
(* 500-byte window boundary) and every app-id, isWrapperConfigured and     *)
(* installWrapper return a value (bool, ok or error) and never abort or    *)
(* panic.                                                                  *)
(***************************************************************************)
C14_NeverPanics ==
  (InstallDone \/ CheckDone) => last.msg # SlicePanic

\* the worker of launch w polls for F1
Waiting(w) == workers[w].pc = "poll"

\* the worker of launch w has seen F1 down: it is in, or past, its spawns
Fired(w) == workers[w].pc \in {"sleep500", "done"}

\* `protonhax run` spawns of launch w, either slot
RunsOf(w) == EffectsOf(w, "run", 1) \cup EffectsOf(w, "run", 2)

\* a step in which some worker polls and sees F1 down: exe 1 of launch w is
\* spawned
FiringPoll(w) ==
  /\ f1
  /\ effects' = Append(effects, RunEffect(w, workers[w].app, 1, workers[w].exe1))

\* the worker of launch w is Waiting or Fired, has spawned nothing while
\* Waiting, and each executable at most once
SpawnsWhileFiredOnce(w) ==
  /\ Waiting(w) \/ Fired(w)
  /\ Waiting(w) => RunsOf(w) = {}
  /\ Cardinality(EffectsOf(w, "run", 1)) <= 1
  /\ Cardinality(EffectsOf(w, "run", 2)) <= 1

(***************************************************************************)
(* C15: the hotkey worker of a launch has exactly two states, Waiting and  *)
(* Fired: it leaves Waiting only by a poll that observes F1 down (no       *)
(* timeout, no cancel), no `protonhax run` of that launch is spawned while *)
(* it is Waiting, Fired is terminal, and over the whole run the worker     *)
(* spawns exe1 at most once and exe2 at most once, even if F1 stays down   *)
(* or is pressed again.                                                    *)
(***************************************************************************)
C15_WaitingThenFired ==
  [][/\ \A w \in 1..Len(workers) :
          /\ (Waiting(w) /\ workers'[w].pc # "poll") => FiringPoll(w)
          /\ Fired(w) => /\ workers'[w].pc \in {"sleep500", "done"}
                         /\ workers[w].pc = "done" => workers'[w] = workers[w]
     /\ (\A w \in 1..Len(workers) : SpawnsWhileFiredOnce(w))']_vars

\* launch 1 has fired and spawned both executables, each once; launch 2 still
\* waits; F1 is down
C15_Witness ==
  /\ Len(workers) = 2 /\ f1
  /\ workers[1].pc = "done" /\ workers[2].pc = "poll"
  /\ Cardinality(EffectsOf(1, "run", 1)) = 1
  /\ Cardinality(EffectsOf(1, "run", 2)) = 1
  /\ RunsOf(2) = {}

\* launch w has been made
Launched(w) == w <= Len(workers)

\* the worker of launch w has spawned exe1, and exe2 if it is set, and exited
Exited(w) ==
  /\ workers[w].pc = "done"
  /\ EffectsOf(w, "run", 1) # {}
  /\ workers[w].exe2 # "" => EffectsOf(w, "run", 2) # {}

(***************************************************************************)
(* C16: under fair scheduling of the polling worker, if F1 is down at some *)
(* poll after a launch with non-empty exe1 (the worker has fired, or F1    *)
(* stays down), then eventually `protonhax run <appId> <exe1>` has been    *)
(* spawned, eventually `protonhax run <appId> <exe2>` has been spawned     *)
(* when exe2 is non-empty, and eventually the worker exits; if F1 is never *)
(* down, the worker keeps polling forever and never exits.                 *)
(***************************************************************************)
C16_FiresThenExits ==
  \A w \in 1..MaxLaunches :
    /\ (Launched(w) /\ Fired(w)) ~> (Launched(w) /\ Exited(w))
    /\ []((Launched(w) /\ []f1) => <>(Launched(w) /\ Exited(w)))
    /\ []((Launched(w) /\ Waiting(w) /\ [](~f1)) => [](Launched(w) /\ Waiting(w)))

\* a launch whose worker has spawned both executables and exited, F1 up again
C16_Witness ==
  /\ Len(workers) = 1 /\ ~f1
  /\ workers[1].exe2 # "" /\ Exited(1)
  /\ Len(effects) = 3

\* index of the first `{` after the first occurrence of "<app_id>"; 0 if the
\* token is absent or no `{` follows it
NextBrace(file, app_id) ==
  LET t == IndexOf(file, AppPattern(app_id), 1)
  IN IF t = 0 THEN 0 ELSE IndexOf(file, <<"{">>, t + 3)

\* index of the first "LaunchOptions" key that lies wholly in the 500 bytes
\* after that brace; 0 if there is none
KeyInWindow(file, app_id) ==
  LET b == NextBrace(file, app_id)
      k == IF b = 0 THEN 0 ELSE IndexOf(file, LaunchKey, b + 1)
  IN IF k # 0 /\ ByteLen(SubSeq(file, b + 1, k + 2)) <= 500 THEN k ELSE 0

\* the key in the window is followed by no double quote, or by just one
TruncatedValue(file, app_id) ==
  LET k == KeyInWindow(file, app_id)
      o == IF k = 0 THEN 0 ELSE IndexOf(file, <<"dq">>, k + 3)
  IN k # 0 /\ (o = 0 \/ IndexOf(file, <<"dq">>, o + 1) = 0)

\* the last call failed with message m and left the file alone
FailedWith(m) ==
  /\ ~last.ok /\ last.msg = m
  /\ ~last.wrote /\ content = last.before

(***************************************************************************)
(* C17: on malformed input installWrapper returns an error and leaves the  *)
(* file unchanged: when "<appId>" is present but no `{` follows it (and    *)
(* the wrapper is not detected as configured) the error is `Invalid VDF    *)
(* structure`; when "LaunchOptions" is found in the window but its value   *)
(* has no opening or no closing double-quote the error is `Invalid         *)
(* LaunchOptions format`; in both cases no write is performed.             *)
(***************************************************************************)
C17_MalformedRejected ==
  (InstallDone /\ Readable(fs)) =>
    /\ (/\ IndexOf(last.before, AppPattern(last.app), 1) # 0
        /\ NextBrace(last.before, last.app) = 0
        /\ ~has_protonhax_configured(last.before, fs, last.app))
         => FailedWith("Invalid VDF structure")
    /\ TruncatedValue(last.before, last.app)
         => FailedWith("Invalid LaunchOptions format")

\* a value opened and not closed, 240 bytes into the block, was rejected
C17_Witness ==
  /\ InstallDone /\ fs = "ok"
  /\ TruncatedValue(last.before, last.app)
  /\ IndexOf(last.before, <<"dq">>, KeyInWindow(last.before, last.app) + 3) # 0
  /\ CountOcc(last.before, <<"filler">>) = 1
  /\ FailedWith("Invalid LaunchOptions format")

\* newline, seven tabs, "LaunchOptions", two tabs, "protonhax init %COMMAND%"
InsertedLine ==
  <<"nl">> \o [i \in 1..7 |-> "tab"] \o LaunchKey \o <<"tab", "tab">>
    \o <<"dq", "protonhax", " ", "init", " ", "%COMMAND%", "dq">>

\* the last call ran on a writable file in which the app has a block and the
\* 500 bytes after the block's brace hold no LaunchOptions key
C18_Case ==
  /\ InstallDone /\ fs = "ok"
  /\ BlockOpen(last.before, last.app) # 0
  /\ KeyInWindow(last.before, last.app) = 0

C19_Case ==
  /\ InstallDone /\ fs = "ok"
  /\ TargetKey(last.before, last.app) # 0

\* bytes from the start of the first "<app_id>" to the start of the app's key
KeyOffset(file, app_id) ==
  ByteLen(SubSeq(file, IndexOf(file, AppPattern(app_id), 1), TargetKey(file, app_id) - 1))

\* Case B was taken: the line was inserted after the block's brace and the
\* existing key and value were left as they were
TookCaseB ==
  LET b == BlockOpen(last.before, last.app) IN
    /\ last.ok /\ last.wrote
    /\ content = SubSeq(last.before, 1, b) \o InsertedLine
                   \o SubSeq(last.before, b + 1, Len(last.before))

(***************************************************************************)
(* C19 as stated: the 500-byte window is a hard bound measured from the    *)
(* app-id: whenever the target app's "LaunchOptions" key lies farther than *)
(* 500 bytes from the first occurrence of "<appId>", installWrapper treats *)
(* the key as absent and takes the insertion path (Case B) instead of      *)
(* editing the existing value.                                             *)
(***************************************************************************)
C19_Original ==
  (C19_Case /\ KeyOffset(last.before, last.app) > 500) => TookCaseB

(***************************************************************************)
(* C19 as amended: the 500-byte window is a hard bound measured from the   *)
(* section-body start, the byte after the `{` of the app's block: whenever *)
(* the target app's key does not lie wholly within those 500 bytes,        *)
(* installWrapper treats it as absent and takes Case B.                    *)
(***************************************************************************)
C19_WindowFromSectionStart ==
  (C19_Case /\ ~KeyInEditWindow(last.before, last.app)) => TookCaseB

\* a key 720 bytes into the block was passed over and a second key inserted
C19_Witness ==
  /\ C19_Case /\ ~KeyInEditWindow(last.before, last.app)
  /\ CountOcc(last.before, <<"filler">>) = 3
  /\ TookCaseB
  /\ CountOcc(content, LaunchKey) = 2

\* what a launch takes with it: the app-id and the two paths
Snapshot(wk) == <<wk.app, wk.exe1, wk.exe2>>

(***************************************************************************)
(* C20: the sequencer works on a snapshot of the preferences taken at      *)
(* launch time: the app-id, exe1 and exe2 that the hotkey worker spawns    *)
(* are the values stored when the launch was invoked, and no browse-exe,   *)
(* clear-exe, game-selected or auto-configure-toggled event between the    *)
(* launch and the F1 observation changes which executables are spawned or  *)
(* for which app-id; the worker never reads or writes the shared           *)
(* preferences document.                                                   *)
(***************************************************************************)
C20_LaunchSnapshot ==
  [][/\ LaunchStep =>
          LET wk == workers'[Len(workers')] IN
            /\ wk.exe1 = StoredExes(wk.app).exe1_path
            /\ wk.exe2 = StoredExes(wk.app).exe2_path
     /\ \A w \in 1..Len(workers) : Snapshot(workers'[w]) = Snapshot(workers[w])
     /\ \A i \in NewEffects :
          effects'[i].kind = "run" =>
            LET wk == workers[effects'[i].launch] IN
              /\ effects'[i].app = wk.app
              /\ effects'[i].exe = IF effects'[i].slot = 1 THEN wk.exe1 ELSE wk.exe2
              /\ UNCHANGED <<prefVars, uiVars>>]_vars

\* the worker spawned /a.exe and /b.exe for 440, as stored at the launch,
\* though by then exe1 had been replaced by /b.exe and 620 selected
C20_Witness ==
  /\ Len(workers) = 1 /\ workers[1].pc = "done"
  /\ effects[Len(effects) - 1] = RunEffect(1, "440", 1, "/a.exe")
  /\ effects[Len(effects)] = RunEffect(1, "440", 2, "/b.exe")
  /\ game_configs["440"].exe1_path = "/b.exe"
  /\ ui_app_id = "620"

\* the launches accepted so far whose worker still polls
WaitingWorkers == {w \in 1..Len(workers) : Waiting(w)}

\* the positions in effects of the effects of one kind and slot, any launch
AllEffects(kind, slot) ==
  {i \in 1..Len(effects) : effects[i].kind = kind /\ effects[i].slot = slot}

(***************************************************************************)
(* C21: launches are independent and not deduplicated: every launch event  *)
(* with non-empty exe1 spawns Steam once and starts its own hotkey worker  *)
(* regardless of workers still Waiting from earlier launches, so if k      *)
(* launches are accepted before F1 is observed, the number of Waiting      *)
(* workers is k and, once every worker has observed F1, exactly k          *)
(* `protonhax run <appId> <exe1>` spawns have occurred, one per launch,    *)
(* each with that launch's own snapshot.                                   *)
(***************************************************************************)
C21_LaunchesIndependent ==
  LET k == Len(workers) IN
    /\ Cardinality(AllEffects("steam", 0)) = k
    /\ \A n \in 1..k : Cardinality(EffectsOf(n, "steam", 0)) = 1
    /\ AllEffects("run", 1) = {} => Cardinality(WaitingWorkers) = k
    /\ WaitingWorkers = {} =>
         /\ Cardinality(AllEffects("run", 1)) = k
         /\ \A n \in 1..k :
              \E i \in AllEffects("run", 1) :
                effects[i] = RunEffect(n, workers[n].app, 1, workers[n].exe1)

\* two launches of 440 accepted while F1 was up, then both workers fired
C21_Witness ==
  /\ Len(workers) = 2 /\ WaitingWorkers = {}
  /\ workers[1].app = "440" /\ workers[2].app = "440"
  /\ effects[1].kind = "steam" /\ effects[2].kind = "steam"
  /\ Cardinality(AllEffects("run", 1)) = 2

====
